---- MODULE Spec2Model ----
(***************************************************************************)
(* Model of parity_check_app.py: a 3-qubit, 1-clbit parity check circuit   *)
(* is built from two selected bits, run for a number of shots on an ideal  *)
(* simulator, and the first key of the counts dictionary is read as the    *)
(* parity.                                                                 *)
(*                                                                         *)
(* Python strings are sequences of one-character strings; Python index i   *)
(* is TLA+ index i+1.  A dict is a sequence of [key, n] records in         *)
(* insertion order, the order list(counts.keys()) iterates in.             *)
(***************************************************************************)
EXTENDS Integers, Sequences, FiniteSets, TLC

VARIABLES
    input_state,        \* the argument of create_parity_check_circuit
    trial_count,        \* the shots argument of backend.run
    pc,                 \* position in the script
    qc,                 \* the circuit: a sequence of instructions
    err,                \* the exception raised, "none" if none
    done,               \* shots of the run completed so far
    cells,              \* qubit register at the end of the latest shot
    clbit,              \* classical slot 0 after the latest shot
    counts,             \* the counts dictionary of the run
    parity_result_bit,  \* line 73
    parity,             \* line 74
    done2,              \* shots completed by a second run of the same job
    counts2,            \* the counts dictionary of the second run
    pending,            \* parallel evaluation: trials not yet evaluated
    ready,              \* parallel evaluation: outcomes not yet merged
    order               \* parallel evaluation: trials in the order merged

vars == <<input_state, trial_count, pc, qc, err, done, cells, clbit, counts,
          parity_result_bit, parity, done2, counts2, pending, ready, order>>

----------------------------------------------------------------------------
(* Bounds *)

MaxTrials == 4      \* trial counts 1..MaxTrials are enumerated
MaxLen == 4         \* argument strings of length 0..MaxLen
MaxCount == 5       \* counts 0..MaxCount in tables handed to the classifier

(* Program constants *)

shots == 1024       \* line 68
NumQubits == 3      \* QuantumCircuit(3, 1)
NumClbits == 1

SelectboxOptions == {"0", "1"}          \* lines 38-39
Alphabet == {"0", "1", "x"}             \* characters of arbitrary arguments

NoCircuit == <<>>
ZeroCells == [q \in 0..(NumQubits - 1) |-> 0]
ZeroClbits == [c \in 0..(NumClbits - 1) |-> 0]

----------------------------------------------------------------------------
(* Circuit instructions *)

XGate(q) == [name |-> "x", qubits |-> <<q>>, clbits |-> <<>>]
CXGate(c, t) == [name |-> "cx", qubits |-> <<c, t>>, clbits |-> <<>>]
Barrier == [name |-> "barrier", qubits |-> <<0, 1, 2>>, clbits |-> <<>>]
Measure(q, c) == [name |-> "measure", qubits |-> <<q>>, clbits |-> <<c>>]

(* create_parity_check_circuit: indexing past the end of the string raises *)
(* IndexError and the function returns nothing; any character other than   *)
(* '1' leaves the qubit untouched; characters after the second are never   *)
(* read.                                                                   *)
create_parity_check_circuit_noSecondCX(s) ==
    IF Len(s) < 2
    THEN [ok |-> FALSE, err |-> "IndexError", qc |-> NoCircuit]
    ELSE [ok |-> TRUE, err |-> "none",
          qc |-> (IF s[1] = "1" THEN <<XGate(0)>> ELSE <<>>)
                 \o (IF s[2] = "1" THEN <<XGate(1)>> ELSE <<>>)
                 \o <<Barrier, CXGate(0, 2), Barrier, Measure(2, 0)>>]

create_parity_check_circuit_swappedCX(s) ==
    IF Len(s) < 2
    THEN [ok |-> FALSE, err |-> "IndexError", qc |-> NoCircuit]
    ELSE [ok |-> TRUE, err |-> "none",
          qc |-> (IF s[1] = "1" THEN <<XGate(0)>> ELSE <<>>)
                 \o (IF s[2] = "1" THEN <<XGate(1)>> ELSE <<>>)
                 \o <<Barrier, CXGate(1, 2), CXGate(0, 2), Barrier,
                      Measure(2, 0)>>]

create_parity_check_circuit(s) ==
    IF Len(s) < 1
    THEN [ok |-> FALSE, err |-> "IndexError", qc |-> NoCircuit]
    ELSE IF Len(s) < 2
    THEN [ok |-> FALSE, err |-> "IndexError", qc |-> NoCircuit]
    ELSE [ok |-> TRUE, err |-> "none",
          qc |-> (IF s[1] = "1" THEN <<XGate(0)>> ELSE <<>>)
                 \o (IF s[2] = "1" THEN <<XGate(1)>> ELSE <<>>)
                 \o <<Barrier, CXGate(0, 2), CXGate(1, 2), Barrier,
                      Measure(2, 0)>>]

----------------------------------------------------------------------------
(* Ideal (noiseless) execution of one shot on computational basis states *)

Flip(b) == 1 - b

ApplyOp_cxIgnoresControl(st, op) ==
    CASE op.name = "x" ->
           [st EXCEPT !.q[op.qubits[1]] = Flip(@)]
      [] op.name = "cx" ->
           [st EXCEPT !.q[op.qubits[2]] = Flip(@)]
      [] op.name = "measure" ->
           [st EXCEPT !.c[op.clbits[1]] = st.q[op.qubits[1]]]
      [] OTHER -> st

ApplyOp(st, op) ==
    CASE op.name = "x" ->
           [st EXCEPT !.q[op.qubits[1]] = Flip(@)]
      [] op.name = "cx" ->
           IF st.q[op.qubits[1]] = 1
           THEN [st EXCEPT !.q[op.qubits[2]] = Flip(@)]
           ELSE st
      [] op.name = "measure" ->
           [st EXCEPT !.c[op.clbits[1]] = st.q[op.qubits[1]]]
      [] OTHER -> st

RECURSIVE RunOps(_, _)
RunOps(st, ops) ==
    IF ops = <<>> THEN st ELSE RunOps(ApplyOp(st, Head(ops)), Tail(ops))

Execute(circ) == RunOps([q |-> ZeroCells, c |-> ZeroClbits], circ)

BitString(b) == IF b = 1 THEN "1" ELSE "0"

(* Dictionary helpers *)

HasKey(table, k) == \E i \in 1..Len(table) : table[i].key = k

Tally_noIncrement(table, k) ==
    IF HasKey(table, k) THEN table
    ELSE Append(table, [key |-> k, n |-> 1])

Tally(table, k) ==
    IF HasKey(table, k)
    THEN [i \in 1..Len(table) |->
            IF table[i].key = k THEN [table[i] EXCEPT !.n = @ + 1]
            ELSE table[i]]
    ELSE Append(table, [key |-> k, n |-> 1])

RECURSIVE Total(_)
Total(table) == IF table = <<>> THEN 0 ELSE Head(table).n + Total(Tail(table))

Get(table, k) ==
    IF HasKey(table, k)
    THEN table[CHOOSE i \in 1..Len(table) : table[i].key = k].n
    ELSE 0

----------------------------------------------------------------------------
(* Input sets *)

Strings(n) == UNION {[1..m -> Alphabet] : m \in 0..n}

Keys == {"0", "1"}

Tables ==
    {<<[key |-> k, n |-> a]>> : k \in Keys, a \in 0..MaxCount}
    \cup {t \in {<<[key |-> k, n |-> a], [key |-> l, n |-> b]>> :
                    k \in Keys, l \in Keys,
                    a \in 0..MaxCount, b \in 0..MaxCount} :
            t[1].key # t[2].key}

TrialChoices == (1..MaxTrials) \cup {shots}

Idle ==
    /\ qc = NoCircuit
    /\ err = "none"
    /\ done = 0
    /\ cells = ZeroCells
    /\ clbit = 0
    /\ parity_result_bit = ""
    /\ parity = ""
    /\ done2 = 0
    /\ counts2 = <<>>
    /\ ready = {}
    /\ order = <<>>

(* The script: both bits come from the two selectboxes (lines 38-40). *)
Init ==
    /\ \E q0_state \in SelectboxOptions, q1_state \in SelectboxOptions :
          input_state = <<q0_state, q1_state>>
    /\ trial_count \in TrialChoices
    /\ pc = "build"
    /\ counts = <<>>
    /\ pending = {}
    /\ Idle

(* The same script with the enumerated trial counts only. *)
InitSmall ==
    /\ \E q0_state \in SelectboxOptions, q1_state \in SelectboxOptions :
          input_state = <<q0_state, q1_state>>
    /\ trial_count \in 1..MaxTrials
    /\ pc = "build"
    /\ counts = <<>>
    /\ pending = 1..trial_count
    /\ Idle

(* create_parity_check_circuit as a function of an arbitrary string. *)
InitBuild ==
    /\ input_state \in Strings(MaxLen)
    /\ trial_count = shots
    /\ pc = "build"
    /\ counts = <<>>
    /\ pending = {}
    /\ Idle

(* Lines 73-74 as a function of an arbitrary non-empty counts dictionary. *)
InitClassify ==
    /\ input_state = <<>>
    /\ trial_count = 0
    /\ pc = "classify"
    /\ counts \in Tables
    /\ pending = {}
    /\ Idle

----------------------------------------------------------------------------
(* Actions *)

(* line 45: qc = create_parity_check_circuit(input_state_str) *)
Build ==
    /\ pc = "build"
    /\ LET r == create_parity_check_circuit(input_state) IN
         /\ qc' = r.qc
         /\ err' = r.err
         /\ pc' = IF r.ok THEN "run" ELSE "error"
    /\ UNCHANGED <<input_state, trial_count, done, cells, clbit, counts,
                   parity_result_bit, parity, done2, counts2, pending, ready, order>>

RunShot_doubleCount ==
    /\ pc = "run"
    /\ done < trial_count
    /\ LET st == Execute(qc) IN
         /\ cells' = st.q
         /\ clbit' = st.c[0]
         /\ counts' = Tally(Tally(counts, BitString(st.c[0])),
                            BitString(st.c[0]))
    /\ done' = done + 1
    /\ UNCHANGED <<input_state, trial_count, pc, qc, err, parity_result_bit,
                   parity, done2, counts2, pending, ready, order>>

(* line 69: one of the shots of backend.run(qc, shots=shots) *)
RunShot ==
    /\ pc = "run"
    /\ done < trial_count
    /\ LET st == Execute(qc) IN
         /\ cells' = st.q
         /\ clbit' = st.c[0]
         /\ counts' = Tally(counts, BitString(st.c[0]))
    /\ done' = done + 1
    /\ UNCHANGED <<input_state, trial_count, pc, qc, err, parity_result_bit,
                   parity, done2, counts2, pending, ready, order>>

(* lines 70-71: job.result().get_counts(qc), once every shot has run *)
GetCounts ==
    /\ pc = "run"
    /\ done = trial_count
    /\ pc' = "classify"
    /\ UNCHANGED <<input_state, trial_count, qc, err, done, cells, clbit,
                   counts, parity_result_bit, parity, done2, counts2, pending,
                   ready, order>>

(* lines 73-74: the first key of the dictionary decides the label *)
Classify ==
    /\ pc = "classify"
    /\ IF counts = <<>>
       THEN /\ pc' = "error"
            /\ err' = "IndexError"
            /\ UNCHANGED <<parity_result_bit, parity>>
       ELSE /\ parity_result_bit' = counts[1].key
            /\ parity' = IF counts[1].key = "0" THEN "Even" ELSE "Odd"
            /\ pc' = "done"
            /\ UNCHANGED err
    /\ UNCHANGED <<input_state, trial_count, qc, done, cells, clbit, counts,
                   done2, counts2, pending, ready, order>>

(* A second backend.run of the same circuit with the same shots *)
RunShot2_noisy ==
    /\ pc = "run"
    /\ done2 < trial_count
    /\ \E b \in {0, 1} : counts2' = Tally(counts2, BitString(b))
    /\ done2' = done2 + 1
    /\ UNCHANGED <<input_state, trial_count, pc, qc, err, done, cells, clbit,
                   counts, parity_result_bit, parity, pending, ready, order>>

RunShot2 ==
    /\ pc = "run"
    /\ done2 < trial_count
    /\ counts2' = Tally(counts2, BitString(Execute(qc).c[0]))
    /\ done2' = done2 + 1
    /\ UNCHANGED <<input_state, trial_count, pc, qc, err, done, cells, clbit,
                   counts, parity_result_bit, parity, pending, ready, order>>

GetCountsTwice ==
    /\ done2 = trial_count
    /\ GetCounts

(* Shots evaluated independently and merged in completion order *)
TrialEvaluate(i) ==
    /\ pc = "run"
    /\ i \in pending
    /\ pending' = pending \ {i}
    /\ LET st == Execute(qc) IN
         /\ cells' = st.q
         /\ clbit' = st.c[0]
         /\ ready' = ready \cup {[trial |-> i, outcome |-> BitString(st.c[0])]}
    /\ UNCHANGED <<input_state, trial_count, pc, qc, err, done, counts,
                   parity_result_bit, parity, done2, counts2, order>>

TrialMerge_lostUpdate(r) ==
    /\ pc = "run"
    /\ r \in ready
    /\ ready' = ready \ {r}
    /\ counts' = IF Cardinality(ready) > 1 THEN Tally(<<>>, r.outcome)
                 ELSE Tally(counts, r.outcome)
    /\ done' = done + 1
    /\ order' = Append(order, r.trial)
    /\ UNCHANGED <<input_state, trial_count, pc, qc, err, cells, clbit,
                   parity_result_bit, parity, done2, counts2, pending>>

TrialMerge(r) ==
    /\ pc = "run"
    /\ r \in ready
    /\ ready' = ready \ {r}
    /\ counts' = Tally(counts, r.outcome)
    /\ done' = done + 1
    /\ order' = Append(order, r.trial)
    /\ UNCHANGED <<input_state, trial_count, pc, qc, err, cells, clbit,
                   parity_result_bit, parity, done2, counts2, pending>>

Evaluate == \E i \in pending : TrialEvaluate(i)

Merge == \E r \in ready : TrialMerge(r)

----------------------------------------------------------------------------
(* Specifications *)

Next == Build \/ RunShot \/ GetCounts \/ Classify
Spec == Init /\ [][Next]_vars

NextBuild == Build
SpecBuild == InitBuild /\ [][NextBuild]_vars

NextClassify == Classify
SpecClassify == InitClassify /\ [][NextClassify]_vars

NextTwice == Build \/ RunShot \/ RunShot2 \/ GetCountsTwice \/ Classify
SpecTwice == InitSmall /\ [][NextTwice]_vars

NextPar == Build \/ Evaluate \/ Merge \/ GetCounts \/ Classify
SpecPar == InitSmall /\ [][NextPar]_vars

----------------------------------------------------------------------------
(* Vocabulary of the properties *)

Valid(s) == Len(s) = 2 /\ \A i \in 1..2 : s[i] \in Keys

Xor(a, b) == IF a = b THEN 0 ELSE 1

Finished == pc \in {"classify", "done"}

RECURSIVE SequentialCounts(_, _)
SequentialCounts(circ, n) ==
    IF n = 0 THEN <<>>
    ELSE Tally(SequentialCounts(circ, n - 1), BitString(Execute(circ).c[0]))

Operations(circ) == SelectSeq(circ, LAMBDA op : op.name # "barrier")

Dominant(table) ==
    IF Len(table) = 1 THEN table[1].key
    ELSE IF Get(table, "1") > Get(table, "0") THEN "1" ELSE "0"

----------------------------------------------------------------------------
(* C1: for every valid 2-bit input and every trial count N >= 1, build,    *)
(* then simulate with N trials, then classify gives "Even" exactly when    *)
(* the two bits are equal and "Odd" exactly when they differ.              *)
C1_ParityLabel ==
    (pc = "done" /\ Valid(input_state) /\ trial_count >= 1) =>
        /\ parity = "Even" <=> input_state[1] = input_state[2]
        /\ parity = "Odd" <=> input_state[1] # input_state[2]

C1_Witness ==
    /\ pc = "done"
    /\ input_state = <<"1", "0">>
    /\ trial_count = shots
    /\ parity = "Odd"

(* C2: for every valid input, once the X and CX gates have been applied in *)
(* order, cell 2 immediately before the measurement holds the exclusive-OR *)
(* of the two input bits.                                                  *)
C2_AccumulatorIsXor ==
    (pc \in {"run", "classify", "done"} /\ Valid(input_state)) =>
        /\ Execute(SubSeq(qc, 1, Len(qc) - 1)).q[2]
             = Xor(input_state[1], input_state[2])
        /\ done >= 1 => cells[2] = Xor(input_state[1], input_state[2])

C2_Witness ==
    /\ pc = "run"
    /\ done >= 1
    /\ input_state = <<"1", "1">>
    /\ cells = [q \in 0..2 |-> IF q = 2 THEN 0 ELSE 1]

(* C3: for a fixed valid input and N >= 1 trials every repetition records  *)
(* the same value: the table has exactly one key, whose count is the       *)
(* number of repetitions so far and N at the end; the other key is absent. *)
C3_SingleKey ==
    Valid(input_state) =>
        /\ done >= 1 => (Len(counts) = 1 /\ counts[1].n = done)
        /\ Finished => (Len(counts) = 1 /\ counts[1].n = trial_count)

C3_Witness ==
    /\ pc = "done"
    /\ trial_count = 1
    /\ counts = <<[key |-> "1", n |-> 1]>>

(* C4: the table and every running tally has only the keys '0' and '1',    *)
(* each at most once, every count is non-negative, and the final counts    *)
(* sum to N.                                                               *)
C4_TableInvariant ==
    /\ \A i \in 1..Len(counts) : counts[i].key \in Keys /\ counts[i].n >= 0
    /\ \A i, j \in 1..Len(counts) : counts[i].key = counts[j].key => i = j
    /\ Finished => Total(counts) = trial_count

C4_Witness ==
    /\ pc = "classify"
    /\ trial_count = shots
    /\ Total(counts) = shots
    /\ Get(counts, "0") = shots

C6_InvalidRejected ==
    (pc # "build" /\ ~Valid(input_state)) =>
        (pc = "error" /\ err # "none" /\ qc = NoCircuit)

C9_OperationOrder ==
    (pc \in {"run", "classify", "done"} /\ Valid(input_state)) =>
        LET ops == Operations(qc)
            n == Len(ops)
        IN  /\ n >= 3
            /\ ops[n] = Measure(2, 0)
            /\ ops[n - 1] = CXGate(1, 2)
            /\ ops[n - 2] = CXGate(0, 2)
            /\ \A i \in 1..(n - 3) : ops[i] \in {XGate(0), XGate(1)}
            /\ \A i, j \in 1..(n - 3) :
                  i < j => (ops[i] = XGate(0) /\ ops[j] = XGate(1))
            /\ (\E i \in 1..(n - 3) : ops[i] = XGate(0))
                  <=> input_state[1] = "1"
            /\ (\E i \in 1..(n - 3) : ops[i] = XGate(1))
                  <=> input_state[2] = "1"
            /\ Len(qc) = n + 2
            /\ qc[Len(qc)] = Measure(2, 0)

C9_Witness ==
    /\ pc = "run"
    /\ input_state = <<"1", "1">>
    /\ Len(Operations(qc)) = 5
    /\ qc[1] = XGate(0)
    /\ qc[2] = XGate(1)

====
